---- MODULE Spec2Model ----
(***************************************************************************)
(* One request to POST /api/ocr: upload validation, the event stream       *)
(* written by processOCR, rasterization in batches (PDFProcessor) and      *)
(* recognition in batches (OCRService).                                    *)
(*                                                                         *)
(* Texts (recognized text, error messages) are sequences of one-character  *)
(* strings.  Confidence scores are in hundredths (0.7 is 70).  The labels  *)
(* of progress events are strings.  The id and processingTime of a         *)
(* result come from the clock and the random generator and are left out.   *)
(***************************************************************************)
EXTENDS Integers, Sequences, FiniteSets, TLC

(***************************************************************************)
(* Bounds of the model                                                     *)
(***************************************************************************)
\* The highest page index for which the rasterizer's convert resolves: for
\* an index beyond it convert throws.  It is the number of pages of the
\* documents of Spec.
MaxDocPages == 6
\* The number of pages of the documents of LiveSpec.  For an index beyond
\* the pages of the document, up to MaxDocPages, convert throws or resolves
\* without a buffer.
LiveDocPages == 4
\* The number of tokens of a text given to calculateConfidence, and the
\* number of times it is called on one text.
MaxTokens == 5
MaxScoreCalls == 2
\* The number of pages of the documents whose response the client reads
ClientDocPages == 1
\* The number of pieces of a text the recognition API answers with, and the
\* number of pages recognized, when processImage is called on its own
MaxAnswerTokens == 3
MaxRecognized == 2

(***************************************************************************)
(* Program constants                                                       *)
(***************************************************************************)
\* route.ts:30 and pdf-processor.ts:146
MaxFileSize == 50 * 1024 * 1024
\* pdf-processor.ts:141
MinFileSize == 1024
\* pdf-processor.ts:40, the ceiling of the page-count probe
MaxProbePage == 500
\* pdf-processor.ts:57
RasterBatchSize == 5
\* ocr-service.ts:115
OcrBatchSize == 3

Min(a, b) == IF a < b THEN a ELSE b
Max(a, b) == IF a > b THEN a ELSE b

\* The element of a set of one.  Only({F(x) : x \in {e}}) is F(e) with e
\* evaluated once, before the call, as the arguments of a JavaScript call
\* are.
Only(S) == CHOOSE out \in S : TRUE

(***************************************************************************)
(* Text helpers                                                            *)
(***************************************************************************)
Digit == <<"0", "1", "2", "3", "4", "5", "6", "7", "8", "9">>

\* Number to decimal text, as a template literal `${n}` renders it.
RECURSIVE ToChars(_)
ToChars(n) == IF n < 10 THEN <<Digit[n + 1]>>
              ELSE ToChars(n \div 10) \o <<Digit[(n % 10) + 1]>>

\* The same as a string, for the labels of progress events.
RECURSIVE ToStr(_)
ToStr(n) == IF n < 10 THEN Digit[n + 1]
            ELSE ToStr(n \div 10) \o Digit[(n % 10) + 1]

\* String.prototype.includes
Includes(text, part) ==
    \E k \in 0 .. (Len(text) - Len(part)) :
        \A m \in 1 .. Len(part) : text[k + m] = part[m]

\* String.prototype.startsWith, on a sequence
StartsWith(text, part) ==
    /\ Len(text) >= Len(part)
    /\ \A m \in 1 .. Len(part) : text[m] = part[m]

WhiteSpace == {" ", "\n", "\t", "\r"}

\* The first place from k upwards, and the last from k downwards, that
\* holds no white space; Len(text) + 1 and 0 when there is none.
RECURSIVE TrimStart(_, _)
TrimStart(text, k) ==
    IF k > Len(text) \/ text[k] \notin WhiteSpace THEN k
    ELSE TrimStart(text, k + 1)
RECURSIVE TrimEnd(_, _)
TrimEnd(text, k) ==
    IF k < 1 \/ text[k] \notin WhiteSpace THEN k
    ELSE TrimEnd(text, k - 1)

\* String.prototype.trim
Trim(text) == SubSeq(text, TrimStart(text, 1), TrimEnd(text, Len(text)))

UpperCase == {"A", "B", "C", "D", "E", "F", "G", "H", "I", "J", "K", "L", "M",
              "N", "O", "P", "Q", "R", "S", "T", "U", "V", "W", "X", "Y", "Z"}
LowerCase == {"a", "b", "c", "d", "e", "f", "g", "h", "i", "j", "k", "l", "m",
              "n", "o", "p", "q", "r", "s", "t", "u", "v", "w", "x", "y", "z"}
WordChar == UpperCase \cup LowerCase \cup
            {"0", "1", "2", "3", "4", "5", "6", "7", "8", "9", "_"}

\* Number of matches of /[.!?]/g
PunctuationMatches(text) ==
    Cardinality({k \in 1 .. Len(text) : text[k] \in {".", "!", "?"}})

\* The end of the run of lower-case letters that starts at position k
RECURSIVE LowerRunEnd(_, _)
LowerRunEnd(text, k) ==
    IF k + 1 <= Len(text) /\ text[k + 1] \in LowerCase
    THEN LowerRunEnd(text, k + 1) ELSE k

\* Number of matches of /\b[A-Z][a-z]+\b/g: an upper-case letter at a word
\* boundary, one or more lower-case letters, then a word boundary.
CapitalizedMatches(text) ==
    Cardinality({k \in 1 .. Len(text) :
        /\ text[k] \in UpperCase
        /\ (k = 1 \/ text[k - 1] \notin WordChar)
        /\ k + 1 <= Len(text) /\ text[k + 1] \in LowerCase
        /\ LET e == LowerRunEnd(text, k + 1)
           IN  e = Len(text) \/ text[e + 1] \notin WordChar})

\* text.split('\n').length
LineCount(text) == Cardinality({k \in 1 .. Len(text) : text[k] = "\n"}) + 1

ErrorMarker == <<"[", "E", "r", "r", "o", "r">>
UnclearMarker == <<"[", "u", "n", "c", "l", "e", "a", "r", "]">>
QuestionMarker == <<"[", "?", "]">>
Stars == <<"*", "*", "*">>
Questions == <<"?", "?", "?">>

(***************************************************************************)
(* OCRService.calculateConfidence, in hundredths.  `n || 0 > 0` parses as  *)
(* `n || (0 > 0)`: the match count itself is the condition, and the        *)
(* comparison is only its fallback when the count is 0 or there is no      *)
(* match.                                                                  *)
(***************************************************************************)
OrElse(count, fallback) == IF count # 0 THEN TRUE ELSE fallback

\* ocr-service.ts:173
PunctuationBonus(text) ==
    IF OrElse(PunctuationMatches(text), 0 > 0) THEN 5 ELSE 0
\* ocr-service.ts:174
CapitalizedBonus(text) ==
    IF OrElse(CapitalizedMatches(text), 0 > 3) THEN 5 ELSE 0

\* The score returned as it is
Unclamped(confidence) == confidence

\* Math.max(0, Math.min(1, confidence))
Clamp(confidence) == Max(0, Min(100, confidence))

calculateConfidence(text) ==
    LET c0 == 70
        c1 == IF Len(text) > 50 THEN c0 + 10 ELSE c0
        c2 == c1 + PunctuationBonus(text)
        c3 == c2 + CapitalizedBonus(text)
        c4 == IF LineCount(text) > 2 THEN c3 + 5 ELSE c3
        c5 == IF Includes(text, ErrorMarker) THEN 0 ELSE c4
        c6 == IF Includes(text, UnclearMarker) \/ Includes(text, QuestionMarker)
              THEN c5 - 20 ELSE c5
        c7 == IF Len(text) < 20 THEN c6 - 20 ELSE c6
        c8 == IF Includes(text, Stars) \/ Includes(text, Questions)
              THEN c7 - 10 ELSE c7
    IN  Clamp(c8)

\* The pieces of the texts calculateConfidence is called on in the model: a
\* capitalized word, a sentence end, a line break, the three markers and
\* a run of 26 lower-case letters.
CapitalizedWord == <<"A", "b", " ">>
LowerCaseRun == <<"a", "b", "c", "d", "e", "f", "g", "h", "i", "j", "k", "l", "m",
                  "n", "o", "p", "q", "r", "s", "t", "u", "v", "w", "x", "y", "z">>
Tokens == { CapitalizedWord, <<".">>, <<"\n">>, ErrorMarker, UnclearMarker,
            Stars, LowerCaseRun }

(***************************************************************************)
(* The recognition API: what one fetch can produce                         *)
(***************************************************************************)
FetchFailed == <<"f", "e", "t", "c", "h", " ", "f", "a", "i", "l", "e", "d">>
ApiFailed == <<"O", "C", "R", " ", "A", "P", "I", " ", "r", "e", "q", "u", "e",
               "s", "t", " ", "f", "a", "i", "l", "e", "d", ":", " ">>
JsonFailed == <<"U", "n", "e", "x", "p", "e", "c", "t", "e", "d", " ", "e", "n",
                "d", " ", "o", "f", " ", "J", "S", "O", "N", " ", "i", "n", "p",
                "u", "t">>
ErrorPrefix == <<"[", "E", "r", "r", "o", "r", " ", "p", "r", "o", "c", "e", "s",
                 "s", "i", "n", "g", " ", "p", "a", "g", "e", " ">>

\* The texts a successful recognition returns in the model.
Texts == { <<"H", "i", ".", "\n">> }

\* net: whether fetch resolved; ok/status/statusText: the response line;
\* json: whether response.json() parses; hasContent and content:
\* data.choices[0].message.content.
Response(net, ok, status, json, hasContent, content) ==
    [net |-> net, ok |-> ok, status |-> status, statusText |-> <<>>,
     json |-> json, hasContent |-> hasContent, content |-> content]

Responses ==
    { Response("error", FALSE, 0, "invalid", FALSE, <<>>),
      Response("ok", FALSE, 503, "invalid", FALSE, <<>>),
      Response("ok", TRUE, 200, "invalid", FALSE, <<>>),
      Response("ok", TRUE, 200, "object", FALSE, <<>>) }
    \cup { Response("ok", TRUE, 200, "object", TRUE, t) : t \in Texts }

NoPage == [pageNumber |-> 0, extractedText |-> <<>>, confidence |-> 0]

Returned(page) == [threw |-> FALSE, message |-> <<>>, value |-> page]
Thrown(message) == [threw |-> TRUE, message |-> message, value |-> NoPage]

\* The try block of processImage (ocr-service.ts:47-93)
TryRecognize(response, pageNumber) ==
    IF response.net = "error" THEN Thrown(FetchFailed)
    ELSE IF ~response.ok
    THEN Thrown(ApiFailed \o ToChars(response.status) \o <<" ">>
                \o response.statusText)
    ELSE IF response.json = "invalid" THEN Thrown(JsonFailed)
    ELSE LET extractedText == IF response.hasContent /\ response.content # <<>>
                              THEN response.content ELSE <<>>
             confidence == calculateConfidence(extractedText)
         IN  Returned([pageNumber |-> pageNumber,
                       extractedText |-> Trim(extractedText),
                       confidence |-> confidence])

\* processImage without its catch block
processImageUncaught(response, pageNumber) == TryRecognize(response, pageNumber)

\* OCRService.processImage: the catch block turns every failure of the try
\* block into a placeholder result.
processImage(response, pageNumber) ==
    LET r == TryRecognize(response, pageNumber)
    IN  IF r.threw
        THEN Returned([pageNumber |-> pageNumber,
                       extractedText |-> ErrorPrefix \o ToChars(pageNumber)
                                         \o <<":", " ">> \o r.message \o <<"]">>,
                       confidence |-> 0])
        ELSE r

(***************************************************************************)
(* Upload validation                                                       *)
(***************************************************************************)
PdfType == "application/pdf"

\* '%PDF-' as character codes
PdfMagic == <<37, 80, 68, 70, 45>>

\* Buffer.toString() (UTF-8) on the bytes the model uses: an ASCII byte is
\* its own character, a byte that cannot start a UTF-8 sequence decodes to
\* U+FFFD.
DecodeByte(b) == IF b < 128 THEN b ELSE 65533
Utf8Decode(bytes) == [k \in 1 .. Len(bytes) |-> DecodeByte(bytes[k])]

\* buffer.subarray(0, end)
Subarray(bytes, end) == SubSeq(bytes, 1, Min(end, Len(bytes)))

Valid == [isValid |-> TRUE, error |-> ""]
Invalid(error) == [isValid |-> FALSE, error |-> error]

\* validatePDF without the check of the header
validatePDFSizeOnly(buffer) ==
    IF buffer.size < MinFileSize THEN Invalid("PDF file too small")
    ELSE IF buffer.size > MaxFileSize THEN Invalid("PDF file too large (max 50MB)")
    ELSE Valid

\* validatePDF without the check of the minimum size
validatePDFNoMinimum(buffer) ==
    LET header == Utf8Decode(Subarray(buffer.head, 8))
    IN  IF ~StartsWith(header, PdfMagic) THEN Invalid("Invalid PDF format")
        ELSE IF buffer.size > MaxFileSize
        THEN Invalid("PDF file too large (max 50MB)")
        ELSE Valid

\* PDFProcessor.validatePDF; buffer.length is size, and head holds the
\* first bytes of the buffer (at most 8 are ever read).
validatePDF(buffer) ==
    LET header == Utf8Decode(Subarray(buffer.head, 8))
    IN  IF ~StartsWith(header, PdfMagic) THEN Invalid("Invalid PDF format")
        ELSE IF buffer.size < MinFileSize THEN Invalid("PDF file too small")
        ELSE IF buffer.size > MaxFileSize
        THEN Invalid("PDF file too large (max 50MB)")
        ELSE Valid

Json(status, error) == [status |-> status, error |-> error]
EventStream == Json(200, "")
NoResponse == Json(0, "")

\* POST, up to the point where the stream is created (route.ts:11-50)
PostResponse(f) ==
    IF ~f.present THEN Json(400, "No PDF file provided")
    ELSE IF f.type # PdfType THEN Json(400, "Only PDF files are supported")
    ELSE IF f.size > MaxFileSize THEN Json(400, "File size exceeds 50MB limit")
    ELSE LET validation == validatePDF(f)
         IN  IF ~validation.isValid
             THEN Json(400, IF validation.error # "" THEN validation.error
                            ELSE "Invalid PDF file")
             ELSE EventStream

\* The uploads of the model: no file, or a file of some type and size
\* whose first bytes are one of three headers ('%PDF-1.4', '%PDF' followed
\* by a stray byte, a zip archive).
Heads == { <<37, 80, 68, 70, 45, 49, 46, 52>>,
           <<37, 80, 68, 70, 255, 49, 46, 52>>,
           <<80, 75, 3, 4, 20, 0, 0, 0>> }
Sizes == {3, MinFileSize - 1, MinFileSize, MaxFileSize + 1}
NoFile == [present |-> FALSE, type |-> "", size |-> 0, head |-> <<>>]
Files ==
    {NoFile} \cup
    { [present |-> TRUE, type |-> t, size |-> s, head |-> Subarray(h, s)] :
        t \in {PdfType, "image/png"}, s \in Sizes, h \in Heads }

(***************************************************************************)
(* Events of the stream                                                    *)
(***************************************************************************)
NoResult == [pages |-> <<>>, fullText |-> <<>>,
             metadata |-> [totalPages |-> 0,
                           averageConfidence |-> [sum |-> 0, count |-> 0]]]

\* Math.round of the fraction num / den (den > 0, num >= 0)
Round(num, den) == (2 * num + den) \div (2 * den)

\* The callbacks given to convertPDFToImages and processPages
\* (route.ts:93-95, 104-106) write Math.round(progress) and the step.
ProgressEvent(num, den, step) ==
    [type |-> "progress", progress |-> Round(num, den), step |-> step,
     message |-> <<>>, result |-> NoResult]
CompleteEvent(result) ==
    [type |-> "complete", progress |-> 0, step |-> "",
     message |-> <<>>, result |-> result]
ErrorEvent(message) ==
    [type |-> "error", progress |-> 0, step |-> "",
     message |-> message, result |-> NoResult]

\* The batch progress scaled to end at 100 instead of 80
RasterProgressTo100(i, total) == [num |-> 30 * total + 70 * i, den |-> total]

\* 30 + (i / totalPages) * 50, as a fraction over totalPages
RasterProgress(i, total) == [num |-> 30 * total + 50 * i, den |-> total]

\* 5 + (i / totalPages) * 80, as a fraction over totalPages
OcrProgress(i, total) == [num |-> 5 * total + 80 * i, den |-> total]

FirstPageFailed == <<"F", "a", "i", "l", "e", "d", " ", "t", "o", " ", "c", "o",
                     "n", "v", "e", "r", "t", " ", "f", "i", "r", "s", "t", " ",
                     "p", "a", "g", "e">>
PdfFailed == <<"F", "a", "i", "l", "e", "d", " ", "t", "o", " ", "p", "r", "o",
               "c", "e", "s", "s", " ", "P", "D", "F", ":", " ">>
NoPagesMessage == <<"N", "o", " ", "p", "a", "g", "e", "s", " ", "c", "o", "u",
                    "l", "d", " ", "b", "e", " ", "p", "r", "o", "c", "e", "s",
                    "s", "e", "d", " ", "f", "r", "o", "m", " ", "t", "h", "e",
                    " ", "P", "D", "F">>
PageBreak == <<"\n", "\n", "-", "-", "-", " ", "P", "a", "g", "e", " ", "B", "r",
               "e", "a", "k", " ", "-", "-", "-", "\n", "\n">>

\* The messages of the errors the rasterizer throws in the model.
RasterErrors == { <<"E", "O", "F">>, <<"n", "o", " ", "\"", "g", "s", "\"">> }

(***************************************************************************)
(* Array helpers                                                           *)
(***************************************************************************)
\* Array.prototype.slice(from, to) with 0-based from and exclusive to
Slice(seq, from, to) == SubSeq(seq, from + 1, Min(to, Len(seq)))

\* The comparator with its operands swapped
ComparePagesSwapped(a, b) == b.pageNumber - a.pageNumber

\* The comparator of both sorts: a.pageNumber - b.pageNumber
ComparePages(a, b) == a.pageNumber - b.pageNumber

RECURSIVE InsertPage(_, _)
InsertPage(sorted, page) ==
    IF sorted = <<>> THEN <<page>>
    ELSE IF ComparePages(sorted[Len(sorted)], page) > 0
    THEN Append(InsertPage(SubSeq(sorted, 1, Len(sorted) - 1), page),
                sorted[Len(sorted)])
    ELSE Append(sorted, page)

\* Array.prototype.sort with ComparePages (a stable sort)
RECURSIVE SortPages(_)
SortPages(seq) ==
    IF seq = <<>> THEN <<>>
    ELSE Only({InsertPage(sorted, seq[Len(seq)]) :
                  sorted \in {SortPages(SubSeq(seq, 1, Len(seq) - 1))}})

\* The texts joined without the separator
RECURSIVE JoinTextsBare(_, _)
JoinTextsBare(seq, separator) ==
    IF seq = <<>> THEN <<>>
    ELSE JoinTextsBare(SubSeq(seq, 1, Len(seq) - 1), separator)
         \o seq[Len(seq)].extractedText

\* pages.map(page => page.extractedText).join(separator)
RECURSIVE JoinTexts(_, _)
JoinTexts(seq, separator) ==
    IF seq = <<>> THEN <<>>
    ELSE IF Len(seq) = 1 THEN seq[1].extractedText
    ELSE JoinTexts(SubSeq(seq, 1, Len(seq) - 1), separator)
         \o separator \o seq[Len(seq)].extractedText

\* pages.reduce((sum, page) => sum + page.confidence, 0)
RECURSIVE SumConfidence(_)
SumConfidence(seq) ==
    IF seq = <<>> THEN 0
    ELSE SumConfidence(SubSeq(seq, 1, Len(seq) - 1)) + seq[Len(seq)].confidence

(***************************************************************************)
(* State of one request                                                    *)
(***************************************************************************)
VARIABLES
    pc,              \* where POST / processOCR stands
    file,            \* the uploaded form field 'pdf'
    docPages,        \* the number of pages of the uploaded document
    response,        \* what POST answered: status and JSON error, or the stream
    streamOpen,      \* the TransformStream was created
    events,          \* the events written to the stream, in order
    closed,          \* writer.close() was called
    totalPages,      \* convertPDFToImages: totalPages
    rasterI,         \* convertPDFToImages: i of the probe loop, then of the batches
    rasterSlots,     \* the processPage calls of the current batch, by page number
    processedPages,  \* convertPDFToImages: processedPages, then processOCR: pages
    ocrI,            \* processPages: i
    ocrSlots,        \* the processImage calls of the current batch, by position
    pages,           \* processPages: pages, while processPages runs
    recognized,      \* history: the response each page's fetch received
    calls,           \* history: how often each collaborator was called
    caught,          \* processOCR is in its catch block
    text,            \* calculateConfidence: the text it is called on
    scores,          \* calculateConfidence: what its calls on text returned
    delivered,       \* client: how much of the response body reader.read() gave
    buffer,          \* client: buffer
    handled,         \* client: the parsed events it acted on, in order
    app,             \* client: isProcessing, progress, currentStep, error, result
    readerDone       \* client: reader.read() reported done

vars == <<pc, file, docPages, response, streamOpen, events, closed, totalPages,
          rasterI, rasterSlots, processedPages, ocrI, ocrSlots, pages,
          recognized, calls, caught, text, scores,
          delivered, buffer, handled, app, readerDone>>

reader == <<delivered, buffer, handled, app, readerDone>>

NoSlots == <<>>

StartWith(uploads, pageCount) ==
    /\ pc = "request"
    /\ file \in uploads
    /\ docPages = pageCount
    /\ response = NoResponse
    /\ streamOpen = FALSE
    /\ events = <<>>
    /\ closed = FALSE
    /\ totalPages = 0
    /\ rasterI = 0
    /\ rasterSlots = NoSlots
    /\ processedPages = <<>>
    /\ ocrI = 0
    /\ ocrSlots = NoSlots
    /\ pages = <<>>
    /\ recognized = {}
    /\ calls = [rasterizer |-> 0, normalizer |-> 0, recognition |-> 0,
                processPages |-> 0, delay |-> 0]
    /\ caught = FALSE
    /\ text = [tokens |-> 0, chars |-> <<>>]
    /\ scores = <<>>
    /\ delivered = 0
    /\ buffer = <<>>
    /\ handled = <<>>
    /\ app = [isProcessing |-> TRUE, progress |-> 0, currentStep |-> "",
              error |-> <<>>, result |-> NoResult]
    /\ readerDone = FALSE

Start(pageCount) == StartWith(Files, pageCount)

Init == Start(MaxDocPages)
LiveInit == Start(LiveDocPages)
\* No request: only calculateConfidence is called.
ConfidenceInit == Start(0) /\ file = NoFile

(***************************************************************************)
(* processOCR and what it calls run on an event loop: a step of the model  *)
(* is everything the code does from the moment an awaited call settles to  *)
(* the next await.  The operators below take the state of the run as a     *)
(* record r and give the state at that next await.                         *)
(***************************************************************************)
Run == [pc |-> pc, events |-> events, totalPages |-> totalPages,
        rasterI |-> rasterI, rasterSlots |-> rasterSlots,
        processedPages |-> processedPages, ocrI |-> ocrI,
        ocrSlots |-> ocrSlots, pages |-> pages, calls |-> calls,
        caught |-> caught]

Become(r) ==
    \E next \in {r} :
        /\ pc' = next.pc
        /\ events' = next.events
        /\ totalPages' = next.totalPages
        /\ rasterI' = next.rasterI
        /\ rasterSlots' = next.rasterSlots
        /\ processedPages' = next.processedPages
        /\ ocrI' = next.ocrI
        /\ ocrSlots' = next.ocrSlots
        /\ pages' = next.pages
        /\ calls' = next.calls
        /\ caught' = next.caught

Emit(r, written) == [r EXCEPT !.events = @ \o written]
Call(r, what, n) == [r EXCEPT !.calls[what] = @ + n]

\* What processOCR's catch block writes (route.ts:112-115)
CatchEvents(message) == <<ErrorEvent(message)>>

\* processOCR's catch block, up to its await of the write
Catch(run, message) ==
    Only({
        [Emit(r, CatchEvents(message)) EXCEPT !.pc = "closing", !.caught = TRUE]
        : r \in {run}})

(***************************************************************************)
(* OCRService.processPages                                                 *)
(***************************************************************************)
\* The result processPages returns (ocr-service.ts:141-164)
DocumentResult(list) ==
    Only({
        [pages |-> sorted,
         fullText |-> JoinTexts(sorted, PageBreak),
         metadata |-> [totalPages |-> Len(sorted),
                       averageConfidence |-> [sum |-> SumConfidence(sorted),
                                              count |-> Len(sorted)]]]
        : sorted \in {list}})

\* After its loop processPages sorts, builds the result and returns, and
\* processOCR writes the complete event (ocr-service.ts:139-164,
\* route.ts:108-109).  The local pages of processPages ends with the call:
\* the result lives on in the event.
ProcessPagesReturns(run) ==
    Only({
        LET sorted == SortPages(r.pages)
        IN  [Emit(r, <<ProgressEvent(90, 1, "Finalizing text extraction"),
                       ProgressEvent(100, 1, "Processing complete"),
                       CompleteEvent(DocumentResult(sorted))>>)
             EXCEPT !.pages = <<>>, !.pc = "closing"]
        : r \in {run}})

\* The batch cut one page short
OcrBatchOfShort(imageBuffers, i) == Slice(imageBuffers, i, i + OcrBatchSize - 1)

\* The batch cut one page late
OcrBatchOfLong(imageBuffers, i) == Slice(imageBuffers, i, i + OcrBatchSize + 1)

\* imageBuffers.slice(i, i + batchSize)
OcrBatchOf(imageBuffers, i) == Slice(imageBuffers, i, i + OcrBatchSize)

Fetching == [state |-> "fetch", outcome |-> Returned(NoPage)]
Settled(outcome) == [state |-> "done", outcome |-> outcome]

\* The loop of processPages at index i (ocr-service.ts:118-130): the
\* callback of batch.map reports the progress of each page of the batch and
\* calls processImage, which runs up to its await of fetch; then
\* processPages awaits Promise.all.
OcrLoop(run, i) ==
    Only({
        IF i < Len(r.processedPages)
        THEN LET batch == OcrBatchOf(r.processedPages, i)
                 total == Len(r.processedPages)
                 progress == OcrProgress(i, total)
                 reports == [k \in 1 .. Len(batch) |->
                                ProgressEvent(progress.num, progress.den,
                                    "Processing page " \o ToStr(batch[k].pageNumber)
                                    \o " of " \o ToStr(total))]
             IN  [Call(Emit(r, reports), "recognition", Len(batch))
                  EXCEPT !.ocrI = i,
                         !.ocrSlots = [k \in 1 .. Len(batch) |-> Fetching],
                         !.pc = "ocr_wait"]
        ELSE ProcessPagesReturns([r EXCEPT !.ocrI = i])
        : r \in {run}})

\* The test for the delay with <= for <
DelayAfterEveryBatch(i, total) == i + OcrBatchSize <= total

\* i + batchSize < imageBuffers.length (ocr-service.ts:134)
DelayBeforeNextBatch(i, total) == i + OcrBatchSize < total

\* A processImage call of the batch has settled (ocr-service.ts:130-137).
\* Promise.all rejects as soon as one call has thrown, and processPages
\* throws into processOCR's catch block; it resolves when every call has
\* returned, and processPages pushes the results and either starts the
\* delay or goes round its loop.
OcrSettled(run) ==
    Only({
        LET slots == r.ocrSlots
            thrown == {k \in DOMAIN slots :
                         slots[k].state = "done" /\ slots[k].outcome.threw}
        IN  IF thrown # {}
            THEN Catch(r, slots[CHOOSE k \in thrown : TRUE].outcome.message)
            ELSE IF \A k \in DOMAIN slots : slots[k].state = "done"
            THEN LET pushed ==
                       [r EXCEPT !.pages = @ \o [k \in 1 .. Len(slots) |->
                                                    slots[k].outcome.value],
                                 !.ocrSlots = NoSlots]
                 IN  IF DelayBeforeNextBatch(r.ocrI, Len(r.processedPages))
                     THEN [pushed EXCEPT !.pc = "ocr_delay"]
                     ELSE OcrLoop(pushed, r.ocrI + OcrBatchSize)
            ELSE r
        : r \in {run}})

\* processPages from its call to its first await (ocr-service.ts:108-130)
ProcessPages(run) ==
    Only({
        OcrLoop([Call(Emit(r, <<ProgressEvent(5, 1, "Starting OCR processing")>>),
                      "processPages", 1)
                 EXCEPT !.pages = <<>>],
                0)
        : r \in {run}})

(***************************************************************************)
(* PDFProcessor.convertPDFToImages                                         *)
(***************************************************************************)
\* The check of the page count with the comparison off by one
IsZeroPagesNever(converted) == Len(converted) < 0

\* route.ts:97
IsZeroPages(converted) == Len(converted) = 0

\* convertPDFToImages with its last progress report and its sort
\* (pdf-processor.ts:73-78)
ConvertReturned(run) ==
    Only({
        [Emit(r, <<ProgressEvent(85, 1, "Optimizing images for OCR")>>)
         EXCEPT !.processedPages = SortPages(@)]
        : r \in {run}})

\* The zero-page branch without its return: the error event is written and
\* processOCR goes on to processPages.
ConvertReturnsFallsThrough(run) ==
    Only({
        LET returned == ConvertReturned(r)
        IN  IF IsZeroPages(returned.processedPages)
            THEN ProcessPages(Emit(returned, <<ErrorEvent(NoPagesMessage)>>))
            ELSE ProcessPages(returned)
        : r \in {run}})

\* convertPDFToImages returns.  With no page, processOCR writes the error
\* event (route.ts:97-101); otherwise it calls processPages
\* (route.ts:104-106).
ConvertReturns(run) ==
    Only({
        LET returned == ConvertReturned(r)
        IN  IF IsZeroPages(returned.processedPages)
            THEN [Emit(returned, <<ErrorEvent(NoPagesMessage)>>)
                  EXCEPT !.pc = "closing"]
            ELSE ProcessPages(returned)
        : r \in {run}})

\* The loop of the batches with < for <=: the last batch is left out when
\* it holds one page
RasterLoopStopsEarly(run, i) ==
    Only({
        IF i < r.totalPages
        THEN LET batch == i .. (Min(i + RasterBatchSize, r.totalPages + 1) - 1)
             IN  [Call(r, "rasterizer", Cardinality(batch))
                  EXCEPT !.rasterI = i,
                         !.rasterSlots = [j \in batch |-> "convert"],
                         !.pc = "raster_wait"]
        ELSE ConvertReturns([r EXCEPT !.rasterI = i])
        : r \in {run}})

\* The loop of the batches at index i (pdf-processor.ts:58-65): processPage
\* is called for each page of the batch and runs up to its await of
\* convert; then convertPDFToImages awaits Promise.all.
RasterLoop(run, i) ==
    Only({
        IF i <= r.totalPages
        THEN LET batch == i .. (Min(i + RasterBatchSize, r.totalPages + 1) - 1)
             IN  [Call(r, "rasterizer", Cardinality(batch))
                  EXCEPT !.rasterI = i,
                         !.rasterSlots = [j \in batch |-> "convert"],
                         !.pc = "raster_wait"]
        ELSE ConvertReturns([r EXCEPT !.rasterI = i])
        : r \in {run}})

\* batchResults.filter(result => result !== null), in the order of the calls
RECURSIVE ValidResults(_, _, _)
ValidResults(slots, from, to) ==
    IF from > to THEN <<>>
    ELSE (IF slots[from] = "page" THEN <<[pageNumber |-> from]>> ELSE <<>>)
         \o ValidResults(slots, from + 1, to)

\* A processPage call of the batch has returned (pdf-processor.ts:65-71):
\* when every call has, Promise.all resolves, the pages are pushed, the
\* progress is reported and the loop goes round.
RasterSettled(run) ==
    Only({
        IF \A j \in DOMAIN r.rasterSlots : r.rasterSlots[j] \in {"page", "null"}
        THEN LET last == Min(r.rasterI + RasterBatchSize - 1, r.totalPages)
                 progress == RasterProgress(r.rasterI, r.totalPages)
                 report == ProgressEvent(progress.num, progress.den,
                              "Processed " \o ToStr(last) \o " of "
                              \o ToStr(r.totalPages) \o " pages")
             IN  RasterLoop(
                    [Emit(r, <<report>>)
                     EXCEPT !.processedPages =
                                @ \o ValidResults(r.rasterSlots, r.rasterI, last),
                            !.rasterSlots = NoSlots],
                    r.rasterI + RasterBatchSize)
        ELSE r
        : r \in {run}})

\* The probe of the page count has ended (pdf-processor.ts:52-58)
ProbeEnds(run) ==
    Only({
        RasterLoop(
            Emit(r, <<ProgressEvent(30, 1, "Converting " \o ToStr(r.totalPages)
                                            \o " pages")>>),
            1)
        : r \in {run}})

\* The loop of the probe at index i (pdf-processor.ts:40-42)
ProbeLoop(run, i) ==
    Only({
        IF i <= MaxProbePage
        THEN [Call(r, "rasterizer", 1) EXCEPT !.rasterI = i, !.pc = "probe"]
        ELSE ProbeEnds(r)
        : r \in {run}})

(***************************************************************************)
(* Steps                                                                   *)
(***************************************************************************)
\* POST (route.ts:8-78).  A rejected upload is answered with 400; an
\* accepted one creates the stream and starts processOCR, which runs up to
\* its first await: the write of the initial progress event.
POST ==
    /\ pc = "request"
    /\ response' = PostResponse(file)
    /\ IF response'.status = 200
       THEN /\ streamOpen' = TRUE
            /\ Become([Emit(Run, <<ProgressEvent(0, 1, "Starting PDF processing")>>)
                       EXCEPT !.pc = "convert"])
       ELSE /\ streamOpen' = FALSE
            /\ Become([Run EXCEPT !.pc = "responded"])
    /\ UNCHANGED <<reader, text, scores, file, docPages, closed, recognized>>

\* convertPDFToImages up to its first await (pdf-processor.ts:15-31)
ConvertStart ==
    /\ pc = "convert"
    /\ Become([Call(Emit(Run,
                  <<ProgressEvent(10, 1, "Analyzing PDF structure"),
                    ProgressEvent(20, 1, "Converting PDF pages to images")>>),
                  "rasterizer", 1)
               EXCEPT !.pc = "first_page"])
    /\ UNCHANGED <<reader, text, scores, file, docPages, response, streamOpen, closed, recognized>>

\* convert(1) returns a buffer, returns none, or throws
\* (pdf-processor.ts:31-40, 79-82)
FirstPage ==
    /\ pc = "first_page"
    /\ \/ Become(ProbeLoop([Run EXCEPT !.totalPages = 1], 2))
       \/ Become(Catch(Run, PdfFailed \o FirstPageFailed))
       \/ \E message \in RasterErrors : Become(Catch(Run, PdfFailed \o message))
    /\ UNCHANGED <<reader, text, scores, file, docPages, response, streamOpen, closed, recognized>>

\* convert(i) of the probe resolves, with a buffer for a page of the
\* document and without one beyond its pages, or throws
\* (pdf-processor.ts:40-52)
Probe ==
    /\ pc = "probe"
    /\ \/ /\ rasterI <= MaxDocPages
          /\ Become(ProbeLoop([Run EXCEPT !.totalPages = rasterI], rasterI + 1))
       \/ Become(ProbeEnds(Run))
    /\ UNCHANGED <<reader, text, scores, file, docPages, response, streamOpen, closed, recognized>>

\* convert(j) of a processPage call returns a buffer, and processPage goes
\* on to optimizeImageForOCR; or it returns none or throws, and processPage
\* returns null (pdf-processor.ts:90-98, 104-107)
PageConverted ==
    /\ pc = "raster_wait"
    /\ \E j \in DOMAIN rasterSlots :
         /\ rasterSlots[j] = "convert"
         /\ \/ /\ j <= docPages
               /\ Become(Call([Run EXCEPT !.rasterSlots[j] = "optimize"],
                              "normalizer", 1))
            \/ Become(RasterSettled([Run EXCEPT !.rasterSlots[j] = "null"]))
    /\ UNCHANGED <<reader, text, scores, file, docPages, response, streamOpen, closed, recognized>>

\* optimizeImageForOCR returns the optimized buffer, or the original one
\* when sharp fails, and processPage returns the page
\* (pdf-processor.ts:98-103, 110-129)
PageOptimized ==
    /\ pc = "raster_wait"
    /\ \E j \in DOMAIN rasterSlots :
         /\ rasterSlots[j] = "optimize"
         /\ Become(RasterSettled([Run EXCEPT !.rasterSlots[j] = "page"]))
    /\ UNCHANGED <<reader, text, scores, file, docPages, response, streamOpen, closed, recognized>>

\* The fetch of one page of the batch settles and processImage finishes
\* (ocr-service.ts:77-101)
Recognized ==
    /\ pc = "ocr_wait"
    /\ \E k \in DOMAIN ocrSlots : \E answer \in Responses :
         LET pageNumber == OcrBatchOf(processedPages, ocrI)[k].pageNumber
             outcome == processImage(answer, pageNumber)
         IN  /\ ocrSlots[k].state = "fetch"
             /\ Become(OcrSettled([Run EXCEPT !.ocrSlots[k] = Settled(outcome)]))
             /\ recognized' = recognized \cup
                    {[pageNumber |-> pageNumber, response |-> answer]}
    /\ UNCHANGED <<reader, text, scores, file, docPages, response, streamOpen, closed>>

\* The delay between two batches elapses (ocr-service.ts:134-137, 118)
Delay ==
    /\ pc = "ocr_delay"
    /\ Become(OcrLoop(Call(Run, "delay", 1), ocrI + OcrBatchSize))
    /\ UNCHANGED <<reader, text, scores, file, docPages, response, streamOpen, closed, recognized>>

\* processOCR ending without writer.close()
CloseMissing ==
    /\ pc = "closing"
    /\ Become([Run EXCEPT !.pc = "done"])
    /\ UNCHANGED <<reader, text, scores, file, docPages, response, streamOpen, closed, recognized>>

\* The write of the terminal event has resolved: writer.close()
\* (route.ts:99, 110, 116)
Close ==
    /\ pc = "closing"
    /\ closed' = TRUE
    /\ Become([Run EXCEPT !.pc = "done"])
    /\ UNCHANGED <<reader, text, scores, file, docPages, response, streamOpen, recognized>>

\* The stream has failed (the client went away, the readable side was
\* cancelled): the awaited write of the first event rejects (route.ts:90)
\* and processOCR goes to its catch block.
StreamError == <<"s", "t", "r", "e", "a", "m", " ", "c", "l", "o", "s", "e", "d">>
FirstWriteRejects ==
    /\ pc = "convert"
    /\ Become(Catch(Run, StreamError))
    /\ UNCHANGED <<reader, text, scores, file, docPages, response, streamOpen, closed, recognized>>

\* processOCR leaves the try block for the catch block, or the catch
\* block with the error: an async function that throws rejects its
\* promise, which nothing awaits (route.ts:58).
Throw(run, message) ==
    Only({
        IF r.caught THEN [r EXCEPT !.pc = "done"] ELSE Catch(r, message)
        : r \in {run}})

\* The awaited write of the terminal event, or the writer.close() after
\* it, rejects (route.ts:98-99, 109-110, 115-116).
CloseRejects ==
    /\ pc = "closing"
    /\ Become(Throw(Run, StreamError))
    /\ UNCHANGED <<reader, text, scores, file, docPages, response, streamOpen, closed, recognized>>

Next ==
    \/ POST
    \/ ConvertStart
    \/ FirstPage
    \/ Probe
    \/ PageConverted
    \/ PageOptimized
    \/ Recognized
    \/ Delay
    \/ Close

Spec == Init /\ [][Next]_vars

(***************************************************************************)
(* POST on its own, on more uploads                                        *)
(***************************************************************************)
\* The uploads of Files, and more: the sizes on both sides of both limits,
\* a content type that is empty, a header of another PDF version
\* ('%PDF-2.0').
UploadHeads == Heads \cup { <<37, 80, 68, 70, 45, 50, 46, 48>> }
UploadSizes == Sizes \cup {MinFileSize + 1, MaxFileSize - 1, MaxFileSize}
Uploads ==
    Files \cup
    { [present |-> TRUE, type |-> t, size |-> s, head |-> Subarray(h, s)] :
        t \in {PdfType, "image/png", ""}, s \in UploadSizes, h \in UploadHeads }

UploadInit == StartWith(Uploads, 1)

\* POST answers; processOCR, which it may have started, is not followed.
UploadSpec == UploadInit /\ [][POST]_vars

(***************************************************************************)
(* calculateConfidence on its own                                          *)
(***************************************************************************)
request == <<pc, file, docPages, response, streamOpen, events, closed,
             totalPages, rasterI, rasterSlots, processedPages, ocrI, ocrSlots,
             pages, recognized, calls, caught>>

\* The text grows by a token
Type ==
    /\ scores = <<>>
    /\ text.tokens < MaxTokens
    /\ \E token \in Tokens :
         text' = [tokens |-> text.tokens + 1, chars |-> text.chars \o token]
    /\ UNCHANGED <<scores, request, reader>>

\* this.calculateConfidence(extractedText) (ocr-service.ts:87)
Score ==
    /\ Len(scores) < MaxScoreCalls
    /\ scores' = Append(scores, calculateConfidence(text.chars))
    /\ UNCHANGED <<text, request, reader>>

ConfidenceNext ==
    \/ Type
    \/ Score

ConfidenceSpec == ConfidenceInit /\ [][ConfidenceNext]_vars

(***************************************************************************)
(* processImage on its own, on more answers of the recognition API         *)
(***************************************************************************)
\* The pieces of the answers: a short sentence, a line break, a space and
\* a run of 26 lower-case letters.
AnswerTokens == { <<"H", "i", ".">>, <<"\n">>, <<" ">>, LowerCaseRun }

RECURSIVE Answers(_)
Answers(n) ==
    IF n = 0 THEN { <<>> }
    ELSE LET shorter == Answers(n - 1)
         IN  shorter \cup {a \o t : a \in shorter, t \in AnswerTokens}

\* processImage on a page whose fetch gets status 200 and a body with the
\* content (ocr-service.ts:47-93); processPages pushes what it returns
\* (ocr-service.ts:130-131).
Recognize ==
    /\ Len(pages) < MaxRecognized
    /\ \E content \in Answers(MaxAnswerTokens) :
         pages' = Append(pages,
                         processImage(Response("ok", TRUE, 200, "object", TRUE, content),
                                      Len(pages) + 1).value)
    /\ UNCHANGED <<pc, file, docPages, response, streamOpen, events, closed,
                   totalPages, rasterI, rasterSlots, processedPages, ocrI,
                   ocrSlots, recognized, calls, caught, text, scores, reader>>

RecognizeSpec == ConfidenceInit /\ [][Recognize]_vars

\* The request when the stream can fail.  events holds every write
\* processOCR attempts, also those that reject.
FaultNext ==
    \/ Next
    \/ FirstWriteRejects
    \/ CloseRejects

FaultSpec == LiveInit /\ [][FaultNext]_vars

\* Every call that is in flight returns or throws and every continuation
\* that is ready runs: the event loop leaves no enabled step waiting forever.
LiveSpec == LiveInit /\ [][Next]_vars /\ WF_vars(Next)

(***************************************************************************)
(* The browser client (page.tsx), as a function of what the server sent    *)
(***************************************************************************)
\* The characters that cannot stand as they are inside a JSON string
JsonBreaking == {"\"", "\\", "\n", "\r", "\t"}

\* JSON.parse(line.slice(6)) succeeds on the line processOCR wrote for the
\* event.  The message of an error event is put between double quotes as
\* it is (route.ts:115); the labels of progress events are literals of the
\* code without such characters, and a result goes through JSON.stringify.
LineParses(event) ==
    event.type = "error" =>
        \A k \in 1 .. Len(event.message) : event.message[k] \notin JsonBreaking

UploadFailed == <<"U", "p", "l", "o", "a", "d", " ", "f", "a", "i", "l", "e", "d",
                  ":", " ">>

\* handleFileUpload up to its fetch (page.tsx:33-36)
ClientStarted ==
    [isProcessing |-> TRUE, progress |-> 0, currentStep |-> "",
     error |-> <<>>, result |-> NoResult]

\* The body of the loop over the lines (page.tsx:68-85)
ClientReads(client, event) ==
    IF ~LineParses(event) THEN client
    ELSE IF event.type = "progress"
    THEN [client EXCEPT !.progress = event.progress, !.currentStep = event.step]
    ELSE IF event.type = "complete"
    THEN [client EXCEPT !.result = event.result, !.isProcessing = FALSE]
    ELSE [client EXCEPT !.error = event.message, !.isProcessing = FALSE]

\* The loop over the stream (page.tsx:59-87), on the first n events
RECURSIVE ClientReadsAll(_, _)
ClientReadsAll(sent, n) ==
    IF n = 0 THEN ClientStarted
    ELSE Only({ClientReads(client, sent[n]) :
                  client \in {ClientReadsAll(sent, n - 1)}})

\* handleFileUpload once the response has been read to its end
\* (page.tsx:32-92)
handleFileUpload(answer, sent) ==
    IF answer.status # 200
    THEN [ClientStarted EXCEPT !.error = UploadFailed, !.isProcessing = FALSE]
    ELSE ClientReadsAll(sent, Len(sent))

(***************************************************************************)
(* The response body on the wire, and the client's reader loop             *)
(***************************************************************************)
\* The body is a sequence of units: a unit is one character, one literal
\* piece of a template of route.ts (which has no line feed in it), one step
\* label, or the text JSON.stringify gave for a result.
Ch(c) == [c |-> c, json |-> NoResult]
Chars(seq) == [k \in 1 .. Len(seq) |-> Ch(seq[k])]
Stringified(result) == [c |-> "JSON.stringify(result)", json |-> result]

DataPrefix == <<"d", "a", "t", "a", ":", " ">>
ProgressHead == "{\"type\":\"progress\",\"progress\":"
StepHead == ",\"step\":\""
CompleteHead == "{\"type\":\"complete\",\"result\":"
ErrorHead == "{\"type\":\"error\",\"message\":\""
StringEnd == "\"}"
ObjectEnd == "}"
LineFeed == "\n"

\* The JSON text of an event as the templates of processOCR write it
\* (route.ts:90, 94, 98, 105, 109, 115)
Payload(event) ==
    IF event.type = "progress"
    THEN <<Ch(ProgressHead)>> \o Chars(ToChars(event.progress))
         \o <<Ch(StepHead), Ch(event.step), Ch(StringEnd)>>
    ELSE IF event.type = "complete"
    THEN <<Ch(CompleteHead), Stringified(event.result), Ch(ObjectEnd)>>
    ELSE <<Ch(ErrorHead)>> \o Chars(event.message) \o <<Ch(StringEnd)>>

\* `data: ${payload}\n\n`
Frame(event) == Chars(DataPrefix) \o Payload(event) \o <<Ch(LineFeed), Ch(LineFeed)>>

\* What the writes of the first n events put on the stream
RECURSIVE Body(_, _)
Body(sent, n) ==
    IF n = 0 THEN <<>>
    ELSE Only({head \o Frame(sent[n]) : head \in {Body(sent, n - 1)}})

NotJson == [ok |-> FALSE, data |-> ErrorEvent(<<>>)]
Parsed(data) == [ok |-> TRUE, data |-> data]

DigitValue(c) == CHOOSE d \in 0 .. 9 : Digit[d + 1] = c
RECURSIVE ToNumber(_)
ToNumber(chars) ==
    IF Len(chars) = 1 THEN DigitValue(chars[1].c)
    ELSE 10 * ToNumber(SubSeq(chars, 1, Len(chars) - 1))
         + DigitValue(chars[Len(chars)].c)

\* JSON.parse on a payload (page.tsx:70): the object of the event, or a
\* SyntaxError.  A string ends at its first double quote; a raw control
\* character or a backslash that starts no escape is a syntax error.
JsonParse(payload) ==
    LET n == Len(payload)
        IsDigit(k) == \E d \in 1 .. 10 : Digit[d] = payload[k].c
    IN  IF n < 3 THEN NotJson
        ELSE IF payload[1].c = ProgressHead
        THEN IF /\ n >= 5
                /\ \A k \in 2 .. n - 3 : IsDigit(k)
                /\ payload[n - 2].c = StepHead
                /\ payload[n].c = StringEnd
             THEN Parsed([type |-> "progress",
                          progress |-> ToNumber(SubSeq(payload, 2, n - 3)),
                          step |-> payload[n - 1].c,
                          message |-> <<>>, result |-> NoResult])
             ELSE NotJson
        ELSE IF payload[1].c = CompleteHead
        THEN IF /\ n = 3
                /\ payload[2].c = Stringified(NoResult).c
                /\ payload[3].c = ObjectEnd
             THEN Parsed(CompleteEvent(payload[2].json))
             ELSE NotJson
        ELSE IF payload[1].c = ErrorHead
        THEN IF /\ payload[n].c = StringEnd
                /\ \A k \in 2 .. n - 1 : payload[k].c \notin JsonBreaking
             THEN Parsed(ErrorEvent([k \in 1 .. n - 2 |-> payload[k + 1].c]))
             ELSE NotJson
        ELSE NotJson

\* The body of the loop over the lines (page.tsx:67-86) for one line
ClientLine(state, line) ==
    LET shown == [k \in 1 .. Len(line) |-> line[k].c]
    IN  IF ~StartsWith(Trim(shown), DataPrefix) THEN state
        ELSE LET parsed == JsonParse(SubSeq(line, 7, Len(line)))
             IN  IF ~parsed.ok THEN state
                 ELSE [handled |-> Append(state.handled, parsed.data),
                       app |-> ClientReads(state.app, parsed.data)]

\* buffer.split('\n') without its last element, handled line by line
\* String.prototype.indexOf('\n', k - 1) + 1: the place of the first line
\* feed at or after place k, or 0
RECURSIVE FirstFeed(_, _)
FirstFeed(rest, k) ==
    IF k > Len(rest) THEN 0
    ELSE IF rest[k].c = LineFeed THEN k
    ELSE FirstFeed(rest, k + 1)

RECURSIVE ClientLines(_, _)
ClientLines(state, rest) ==
    LET first == FirstFeed(rest, 1)
    IN  IF first = 0 THEN [state |-> state, buffer |-> rest]
        ELSE ClientLines(ClientLine(state, SubSeq(rest, 1, first - 1)),
                         SubSeq(rest, first + 1, Len(rest)))

\* One round of the reader loop with a chunk (page.tsx:60-86)
ClientChunk(state, pending, chunk) == ClientLines(state, pending \o chunk)

(***************************************************************************)
(* Steps of the client                                                     *)
(***************************************************************************)
\* fetch resolved with a status that is not ok (page.tsx:47-49, 88-91)
Refused ==
    /\ pc = "responded"
    /\ app.isProcessing
    /\ app' = [app EXCEPT !.error = UploadFailed, !.isProcessing = FALSE]
    /\ UNCHANGED <<delivered, buffer, handled, readerDone, text, scores, request>>

\* reader.read() resolves with the next chunk of the body, of any length.
\* The TransformStream holds what processOCR wrote until it is read, so
\* every cut of the body is a cut the client can see.
Read ==
    /\ pc = "done"
    /\ response.status = 200
    /\ ~readerDone
    /\ \E whole \in {Body(events, Len(events))} :
       \E n \in 1 .. (Len(whole) - delivered) :
       \E after \in {ClientChunk([handled |-> handled, app |-> app], buffer,
                                 SubSeq(whole, delivered + 1, delivered + n))} :
          /\ delivered' = delivered + n
          /\ buffer' = after.buffer
          /\ handled' = after.state.handled
          /\ app' = after.state.app
    /\ UNCHANGED <<readerDone, text, scores, request>>

\* reader.read() resolves with done: the loop ends (page.tsx:61)
ReadEnd ==
    /\ pc = "done"
    /\ response.status = 200
    /\ closed
    /\ ~readerDone
    /\ delivered = Len(Body(events, Len(events)))
    /\ readerDone' = TRUE
    /\ UNCHANGED <<delivered, buffer, handled, app, text, scores, request>>

ClientInit == Start(ClientDocPages)

\* The request, then the client.  processPages gets at most ClientDocPages
\* pages, which is a single batch: it never awaits the delay between
\* batches, so Delay is no step of these requests.
ClientNext ==
    \/ POST
    \/ ConvertStart
    \/ FirstPage
    \/ Probe
    \/ PageConverted
    \/ PageOptimized
    \/ Recognized
    \/ Close
    \/ Refused
    \/ Read
    \/ ReadEnd

ClientSpec == ClientInit /\ [][ClientNext]_vars

(***************************************************************************)
(* Properties                                                              *)
(***************************************************************************)
EventsAt(types) == {k \in 1 .. Len(events) : events[k].type \in types}
TerminalAt == EventsAt({"complete", "error"})
ProgressAt == EventsAt({"progress"})
Finished == pc \in {"closing", "done"}
LastEvent == events[Len(events)]

CompleteAt == EventsAt({"complete"})
\* The pages of the result, once the stream ends with the complete event.
ResultPages ==
    IF events # <<>> /\ LastEvent.type = "complete"
    THEN LastEvent.result.pages ELSE <<>>
SettledAt == {k \in DOMAIN ocrSlots : ocrSlots[k].state = "done"}
\* The page results pushed so far: pages while processPages runs, the
\* pages of its result once it has returned.
Collected == IF pages # <<>> THEN pages ELSE ResultPages
\* The page results so far: those pushed and those of the settled calls of
\* the current batch.
Results ==
    {Collected[k] : k \in 1 .. Len(Collected)} \cup
    {ocrSlots[k].outcome.value :
        k \in {j \in SettledAt : ~ocrSlots[j].outcome.threw}}
ResultsOf(results, n) == {p \in results : p.pageNumber = n}
IsPlaceholder(p) ==
    p.confidence = 0 /\ Includes(p.extractedText, ErrorPrefix)

\* C1: at most one terminal event (complete or error) is ever written, a
\* terminal event is the last event of the stream, and once processOCR has
\* finished writing there is exactly one.
C1_OneTerminalEvent ==
    LET terminal == TerminalAt
    IN  /\ Cardinality(terminal) <= 1
        /\ \A k \in terminal : k = Len(events)
        /\ Finished => Cardinality(terminal) = 1

\* A request whose rasterizer threw on the first page has ended.
C1_Witness ==
    /\ pc = "done"
    /\ events # <<>>
    /\ LastEvent.type = "error"
    /\ \E message \in RasterErrors : LastEvent.message = PdfFailed \o message

\* C2: the percent values of the progress events of one request, in the
\* order written, never decrease.
C2_ProgressNonDecreasing ==
    \A a \in ProgressAt : \A b \in ProgressAt :
        a < b => events[a].progress <= events[b].progress

\* C3: percent 100 is written at most once in a request; when a complete
\* event is written, the event right before it is the progress event with
\* percent 100, and it is the only one and the last progress event.
C3_HundredOnce ==
    LET progress == ProgressAt
        hundred == {k \in progress : events[k].progress = 100}
    IN  /\ Cardinality(hundred) <= 1
        /\ \A k \in CompleteAt :
             /\ k > 1
             /\ hundred = {k - 1}
             /\ \A m \in progress : m <= k - 1

\* A six-page document (two rasterization batches) has completed.
C3_Witness ==
    /\ pc = "done"
    /\ totalPages = 6
    /\ CompleteAt # {}

\* C4: the result of a complete event holds exactly one page result for
\* each rasterized page: as many results as rasterized pages, the same
\* page numbers, none twice, and metadata.totalPages is that number.
C4_OneResultPerPage ==
    \A k \in CompleteAt :
        LET result == events[k].result
            numbers == {result.pages[m].pageNumber : m \in 1 .. Len(result.pages)}
        IN  /\ Len(result.pages) = Len(processedPages)
            /\ result.metadata.totalPages = Len(processedPages)
            /\ Cardinality(numbers) = Len(result.pages)
            /\ numbers = {processedPages[m].pageNumber :
                            m \in 1 .. Len(processedPages)}

\* A document of which four pages were rasterized and two were not has
\* completed, with pages whose recognition failed and pages whose
\* recognition succeeded.
C4_Witness ==
    /\ pc = "done"
    /\ totalPages = 6
    /\ Len(processedPages) = 4
    /\ CompleteAt # {}
    /\ \E k \in 1 .. Len(ResultPages) : IsPlaceholder(ResultPages[k])
    /\ \E k \in 1 .. Len(ResultPages) : ResultPages[k].confidence > 0

\* C5: the pages of a result are strictly ascending by pageNumber, and so
\* are the rasterized pages handed to processPages.
C5_PagesAscending ==
    /\ \A k \in CompleteAt :
         LET sorted == events[k].result.pages
         IN  \A a \in 1 .. Len(sorted) : \A b \in 1 .. Len(sorted) :
                a < b => sorted[a].pageNumber < sorted[b].pageNumber
    /\ calls.processPages > 0 =>
         \A a \in 1 .. Len(processedPages) : \A b \in 1 .. Len(processedPages) :
            a < b => processedPages[a].pageNumber < processedPages[b].pageNumber

\* A document with two rasterization batches and two recognition batches
\* has completed.
C5_Witness ==
    /\ pc = "done"
    /\ Len(processedPages) = 6
    /\ \E k \in CompleteAt : Len(events[k].result.pages) = 6

\* A recognition call that failed: the fetch rejected, the status was not a
\* success, or the body could not be read as JSON.
CallFailed(answer) ==
    answer.net = "error" \/ ~answer.ok \/ answer.json = "invalid"

\* C6: no processImage call throws; every page whose recognition call
\* failed has a result, with that page number, confidence 0 and a text
\* that contains "[Error processing page"; and a request that reached
\* processPages ends with a complete event.
C6_FailedPageIsPlaceholder ==
    /\ \A k \in SettledAt : ~ocrSlots[k].outcome.threw
    /\ LET results == Results
       IN  \A r \in recognized :
             CallFailed(r.response) =>
                LET mine == ResultsOf(results, r.pageNumber)
                IN  mine # {} /\ \A p \in mine : IsPlaceholder(p)
    /\ (Finished /\ calls.processPages > 0) => LastEvent.type = "complete"

\* A document of four pages has completed although every recognition call
\* failed, in each of the three ways.
C6_Witness ==
    /\ pc = "done"
    /\ Len(ResultPages) = 4
    /\ LastEvent.type = "complete"
    /\ \A r \in recognized : CallFailed(r.response)
    /\ \E r \in recognized : r.response.net = "error"
    /\ \E r \in recognized : r.response.net = "ok" /\ ~r.response.ok
    /\ \E r \in recognized : r.response.ok /\ r.response.json = "invalid"

\* A response with a non-success status or a malformed body: JSON that
\* does not parse, or parsed JSON without choices[0].message.content.
Malformed(answer) ==
    /\ answer.net = "ok"
    /\ \/ ~answer.ok
       \/ answer.json = "invalid"
       \/ ~answer.hasContent

\* C7: every page whose response had a non-success status or a malformed
\* body has the error placeholder with confidence 0 as its result.
C7_MalformedIsPlaceholder ==
    LET results == Results
    IN  \A r \in recognized :
          Malformed(r.response) =>
             \A p \in ResultsOf(results, r.pageNumber) : IsPlaceholder(p)

\* C8: when rasterization has yielded no page, the stream ends with exactly
\* one error event and no complete event and is closed, and processPages
\* and the recognition API are never called; processPages is never called
\* with an empty list of pages.
C8_ZeroPagesIsError ==
    /\ (Finished /\ processedPages = <<>>) =>
          /\ Cardinality(EventsAt({"error"})) = 1
          /\ CompleteAt = {}
          /\ calls.processPages = 0
          /\ calls.recognition = 0
          /\ pc = "done" => closed
    /\ calls.processPages > 0 => Len(processedPages) > 0

\* Every page conversion of a document with several pages returned nothing.
C8_Witness ==
    /\ pc = "done"
    /\ closed
    /\ totalPages >= 2
    /\ processedPages = <<>>
    /\ calls.rasterizer > totalPages

\* '%PDF-' as bytes
MagicBytes == <<37, 80, 68, 70, 45>>

\* An upload the endpoint must refuse: no file, a content type that is not
\* application/pdf, more than 50MB, or first five bytes that are not '%PDF-'.
Refusable(f) ==
    \/ ~f.present
    \/ f.type # "application/pdf"
    \/ f.size > 50 * 1024 * 1024
    \/ Len(f.head) < 5
    \/ SubSeq(f.head, 1, 5) # MagicBytes

\* C9: once POST has answered such an upload, the answer is 400 with a JSON
\* error, no stream was opened, no event was written, and neither the
\* rasterizer nor the recognition API was called.
C9_InvalidUploadRejected ==
    (pc # "request" /\ Refusable(file)) =>
        /\ response.status = 400
        /\ response.error # ""
        /\ ~streamOpen
        /\ events = <<>>
        /\ calls.rasterizer = 0
        /\ calls.recognition = 0

\* A PDF-typed upload of accepted size whose fifth byte is wrong was answered.
C9_Witness ==
    /\ pc = "responded"
    /\ file.present
    /\ file.type = "application/pdf"
    /\ file.size = 1024
    /\ file.head[1] = 37
    /\ file.head[5] # 45

\* C10: under LiveSpec, once the stream is open, eventually a terminal
\* event has been written and the stream is closed.
C10_EventuallyTerminalAndClosed ==
    streamOpen ~> (Cardinality(TerminalAt) = 1 /\ closed)

\* The stream was opened and has been closed after its terminal event.
C10_Witness ==
    /\ streamOpen
    /\ closed
    /\ TerminalAt = {Len(events)}

C12_BonusesAsSpecified ==
    scores # <<>> =>
        /\ CapitalizedBonus(text.chars) = 5 <=> CapitalizedMatches(text.chars) > 3
        /\ PunctuationBonus(text.chars) = 5 <=> PunctuationMatches(text.chars) >= 1

\* C13: once the stream of a request has ended with an error event, the
\* client shows a non-empty error and isProcessing is false.
C13_ClientShowsPipelineError ==
    (pc = "done" /\ events # <<>> /\ LastEvent.type = "error") =>
        LET client == handleFileUpload(response, events)
        IN  client.error # <<>> /\ ~client.isProcessing

\* C14: the pages convertPDFToImages returns, and the pages of every
\* result, are numbered 1..N without a gap.
C14_PageNumbersContiguous ==
    /\ calls.processPages > 0 =>
          \A k \in 1 .. Len(processedPages) : processedPages[k].pageNumber = k
    /\ \A k \in 1 .. Len(ResultPages) : ResultPages[k].pageNumber = k

\* The marker inside the separator
BreakMarker == <<"-", "-", "-", " ", "P", "a", "g", "e", " ", "B", "r", "e", "a",
                 "k", " ", "-", "-", "-">>

\* Number of places where part occurs in whole
Occurrences(whole, part) ==
    Cardinality({k \in 0 .. (Len(whole) - Len(part)) :
                    \A m \in 1 .. Len(part) : whole[k + m] = part[m]})

\* Where the text of the k-th page starts in a text joined with a
\* separator of the given length
RECURSIVE TextOffset(_, _, _)
TextOffset(list, k, separatorLen) ==
    IF k = 1 THEN 0
    ELSE TextOffset(list, k - 1, separatorLen)
         + Len(list[k - 1].extractedText) + separatorLen

\* C15: in the result of a complete event with N >= 1 pages, fullText is
\* made of the texts of the pages in the order of pages (ascending by page
\* number), each two neighbours 22 characters apart, and it holds the marker
\* "--- Page Break ---" exactly N - 1 times.
C15_FullTextJoinsPages ==
    \A e \in CompleteAt :
        LET result == events[e].result
            list == result.pages
            N == Len(list)
        IN  N >= 1 =>
              /\ Len(result.fullText)
                    = TextOffset(list, N, 22) + Len(list[N].extractedText)
              /\ \A k \in 1 .. N :
                    LET from == TextOffset(list, k, 22)
                    IN  SubSeq(result.fullText, from + 1,
                               from + Len(list[k].extractedText))
                        = list[k].extractedText
              /\ Occurrences(result.fullText, BreakMarker) = N - 1
              /\ \A k \in 1 .. (N - 1) :
                    list[k].pageNumber < list[k + 1].pageNumber

\* A document of four pages has completed although the second
\* recognition batch, of one page, was the only one to succeed: its result
\* holds three separators.
C15_Witness ==
    /\ pc = "done"
    /\ Len(ResultPages) = 4
    /\ Occurrences(LastEvent.result.fullText, BreakMarker) = 3
    /\ ResultPages[4].confidence > 0
    /\ IsPlaceholder(ResultPages[1])

\* The calls of the rasterizer and of the recognition API that have not
\* settled yet
RasterizerInFlight ==
    (IF pc \in {"first_page", "probe"} THEN 1 ELSE 0)
    + Cardinality({j \in DOMAIN rasterSlots : rasterSlots[j] = "convert"})
RecognitionInFlight ==
    Cardinality({k \in DOMAIN ocrSlots : ocrSlots[k].state = "fetch"})
\* The processPage calls that have not returned yet
PagesInFlight ==
    {j \in DOMAIN rasterSlots : rasterSlots[j] \in {"convert", "optimize"}}

\* C16: every step leaves at most 5 rasterizer calls and at most 3
\* recognition calls in flight; a step that starts the processPage calls of
\* a batch is the step in which the last call of the batch before it
\* returns; and a step that starts recognition calls starts them with no
\* recognition call in flight.
C16_BatchesAreBarriers ==
    [][ /\ RasterizerInFlight' <= 5
        /\ RecognitionInFlight' <= 3
        /\ (pc = "raster_wait" /\ calls.rasterizer' > calls.rasterizer) =>
              /\ Cardinality(PagesInFlight) = 1
              /\ \A j \in DOMAIN rasterSlots' : j >= rasterI + 5
        /\ calls.recognition' > calls.recognition =>
              /\ RecognitionInFlight = 0
              /\ PagesInFlight' = {}
      ]_vars

\* After two rasterization batches, the second recognition batch is in
\* flight.
C16_Witness ==
    /\ pc = "ocr_wait"
    /\ totalPages = 6
    /\ ocrI = 3
    /\ RecognitionInFlight = 1
    /\ calls.rasterizer = 13

\* C17: while the batch at index i is in flight, i / 3 delays have been
\* taken, one before each batch but the first; and when the complete event
\* is written, ceil(N / 3) - 1 delays have been taken for the N pages
\* handed to processPages.
C17_DelayBetweenBatches ==
    /\ pc = "ocr_wait" => calls.delay = ocrI \div 3
    /\ pc = "ocr_delay" => calls.delay = ocrI \div 3
    /\ CompleteAt # {} =>
          calls.delay = ((Len(processedPages) + 2) \div 3) - 1

\* A document of four recognized pages has completed after one delay.
C17_Witness ==
    /\ pc = "done"
    /\ CompleteAt # {}
    /\ Len(processedPages) = 4
    /\ calls.delay = 1

\* The phases of a request in their order: uploading, rasterizing,
\* recognizing, and the end (complete or failed).  Finalizing is the part of
\* the step that ends recognizing: it writes the progress events 90 and 100
\* and the complete event.
PhaseRank ==
    CASE pc = "request" -> 0
      [] pc \in {"convert", "first_page", "probe", "raster_wait"} -> 1
      [] pc \in {"ocr_wait", "ocr_delay"} -> 2
      [] pc \in {"responded", "closing", "done"} -> 3

OptimizingAt == {k \in ProgressAt : events[k].step = "Optimizing images for OCR"}
FinalizingAt == {k \in ProgressAt : events[k].step = "Finalizing text extraction"}

\* C19: every progress event carries a percent in 0..100; the three events
\* of rasterization setup carry one in 10..30, the events of the
\* rasterization batches one in 30..80, the events processPages writes
\* before finalization one in 80..90, and the events of finalization one in
\* 90..100.
C19_ProgressInPhaseBand ==
    \A k \in ProgressAt :
        LET percent == events[k].progress
        IN  /\ percent \in 0 .. 100
            /\ k \in 2 .. 4 => percent \in 10 .. 30
            /\ (k >= 5 /\ \A o \in OptimizingAt : k < o) => percent \in 30 .. 80
            /\ ((\E o \in OptimizingAt : k > o) /\ (\A f \in FinalizingAt : k < f))
                  => percent \in 80 .. 90
            /\ (\E f \in FinalizingAt : k >= f) => percent \in 90 .. 100

\* C20: the probe requests no index above 500 and none beyond the first
\* index for which the rasterizer yields no page image (the index after
\* the last page of the document, at the latest), and totalPages counts
\* only indices that yielded a page image.
C20_ProbeStopsAtFirstMissingPage ==
    /\ pc = "probe" => (rasterI <= MaxProbePage /\ rasterI <= docPages + 1)
    /\ totalPages <= docPages

\* C21: however the response body is cut into chunks, once the client has
\* read it to its end it has handled exactly the events the server wrote,
\* each once and in the order written.
C21_ClientHandlesEveryEvent ==
    readerDone => handled = events

\* C22: once processOCR has written a terminal event it attempts no other
\* write, also when that write or the writer.close() after it rejects.
C22_NoWriteAfterTerminal ==
    [][TerminalAt # {} => events' = events]_vars

\* An upload the endpoint must accept: a file of content type
\* application/pdf that starts with '%PDF-' and whose size is between 1024
\* bytes and 50MB inclusive.
Acceptable(f) ==
    /\ f.present
    /\ f.type = "application/pdf"
    /\ Len(f.head) >= 5
    /\ SubSeq(f.head, 1, 5) = MagicBytes
    /\ f.size >= 1024
    /\ f.size <= 50 * 1024 * 1024

\* C23: once POST has answered, the event stream is open if and only if
\* the upload is acceptable, and every other upload was answered with 400.
C23_StreamOpensIffAcceptable ==
    pc # "request" =>
        /\ streamOpen <=> Acceptable(file)
        /\ streamOpen <=> response.status = 200
        /\ ~streamOpen => response.status = 400

\* A well-formed PDF upload of 1023 bytes was answered.
C23_Witness ==
    /\ pc = "responded"
    /\ file.present
    /\ file.type = "application/pdf"
    /\ file.size = 1023
    /\ SubSeq(file.head, 1, 5) = MagicBytes
    /\ response.status = 400

\* C24: the confidence of every page result of a successful recognition is
\* calculateConfidence of the extractedText of that page result, so page
\* results with equal extractedText have equal confidence.
C24_ConfidenceOfStoredText ==
    LET successful == {k \in 1 .. Len(pages) : ~IsPlaceholder(pages[k])}
    IN  /\ \A k \in successful :
             pages[k].confidence = calculateConfidence(pages[k].extractedText)
        /\ \A a \in successful : \A b \in successful :
             pages[a].extractedText = pages[b].extractedText
                 => pages[a].confidence = pages[b].confidence

====
